---------------------------- MODULE Spec2Model ----------------------------
(***************************************************************************)
(* seagul_core: LSB steganography over RGB images.                         *)
(*                                                                         *)
(* ImageEncoder (src/src/encoder.rs) writes the bits of a payload into the *)
(* low bits of one colour channel of a sequence of pixels; ImageDecoder    *)
(* (src/src/decoder.rs) reads them back, optionally stopping at a marker.  *)
(*                                                                         *)
(* An image is a record [width, height, pixels]: pixels is the row-major   *)
(* sequence that enumerate_pixels() walks, each pixel a triple <<r, g, b>> *)
(* of bytes.  Sequences are 1-based: pixel number i of the code (0-based)  *)
(* is pixels[i + 1], bit i of a byte is element i + 1 of its bit view.     *)
(***************************************************************************)
EXTENDS Integers, Sequences, FiniteSets, TLC

VARIABLES
    encoder,    \* the ImageEncoder object: its rules and its source image
    decoder,    \* the ImageDecoder object: its rules, marker and source image
    saved,      \* the file written by EncodedImage::save, with the payload it carries
    call,       \* the most recent call: its name and its arguments
    ret,        \* what the most recent call returned
    pc,         \* position of the call that is being followed step by step
    loop        \* the local variables of that call

vars == <<encoder, decoder, saved, call, ret, pc, loop>>

(***************************************************************************)
(* Bounds of the model.                                                    *)
(***************************************************************************)
MaxLen == 2        \* longest payload handed to encode_bytes
MaxOffset == 1     \* largest argument of set_offset
MaxStride == 2     \* largest argument of set_step_by_n_pixels

\* const BYTE_STEP: bits of a u8
BYTE_STEP == 8

\* bytes of one Rgb<u8> pixel in the buffer as_bytes() returns
RGB_BYTES == 3

RECURSIVE Pow2(_)
Pow2(n) == IF n = 0 THEN 1 ELSE 2 * Pow2(n - 1)

RECURSIVE SeqsUpTo(_, _)
\* every sequence over S of length at most n
SeqsUpTo(S, n) ==
    IF n = 0 THEN {<<>>}
    ELSE LET shorter == SeqsUpTo(S, n - 1)
         IN  shorter \cup {Append(s, b) : s \in shorter, b \in S}

(***************************************************************************)
(* Input sets.                                                             *)
(***************************************************************************)
\* 0x41 'A' and 0x2D '-' (the marker byte of tests/e2e.rs)
PayloadBytes == {65, 45}
\* the payloads handed to encode_bytes: no byte is followed by an equal one
Payloads ==
    {s \in SeqsUpTo(PayloadBytes, MaxLen) : \A i \in 1..(Len(s) - 1) : s[i] # s[i + 1]}

RgbChannels == {"Red", "Green", "Blue"}

Position(kind, x, y) == [kind |-> kind, x |-> x, y |-> y]
TopLeft == Position("TopLeft", 0, 0)
ImagePositions ==
    {Position(k, 0, 0) : k \in {"TopLeft", "TopRight", "BottomLeft", "BottomRight", "Center"}}
        \cup {Position("At", 1, 1)}

Image(w, h, px) == [width |-> w, height |-> h, pixels |-> px]
NoImage == Image(0, 0, <<>>)
PixelCount(img) == img.width * img.height

\* DynamicImage::new_rgb8(w, h): every channel of every pixel is 0
new_rgb8(w, h) == Image(w, h, [i \in 1..(w * h) |-> <<0, 0, 0>>])

\* an image file with mixed channel bytes (pixel i, 0-based, is
\* <<(37 i + 201) mod 256, (91 i + 118) mod 256, (155 i + 63) mod 256>>)
PatternImage(w, h) ==
    Image(w, h, [i \in 1..(w * h) |->
        <<(37 * (i - 1) + 201) % 256, (91 * (i - 1) + 118) % 256, (155 * (i - 1) + 63) % 256>>])

SourceImages == {new_rgb8(4, 4), PatternImage(3, 2)}

(***************************************************************************)
(* Bit views (bitvec, Lsb0 order) and conversion.rs.                       *)
(***************************************************************************)
\* byte_to_bits / view_bits::<Lsb0>: the 8 bits of a byte, least significant first
byte_to_bits(byte) == [i \in 1..BYTE_STEP |-> (byte \div Pow2(i - 1)) % 2]

RECURSIVE BitsValue(_, _)
BitsValue(bits, n) == IF n = 0 THEN 0 ELSE bits[n] * Pow2(n - 1) + BitsValue(bits, n - 1)

\* the byte behind a view_bits_mut::<Lsb0>() view
bits_to_byte(bits) == BitsValue(bits, BYTE_STEP)

\* usize::from(&RgbChannel), as the 1-based index into a pixel triple
ChannelIndex(channel) ==
    CASE channel = "Red" -> 1
      [] channel = "Green" -> 2
      [] channel = "Blue" -> 3

(***************************************************************************)
(* ImageEncoder.                                                           *)
(***************************************************************************)
\* impl Default for ImageEncoder, then encoder.source_image = img
ImageEncoder_from(img) ==
    [lsb_c |-> 1, skip_c |-> 1, offset |-> 0, spread |-> FALSE,
     encoding_channel |-> "Blue", encoding_position |-> TopLeft,
     source_image |-> img]

\* ColorChange(x, y, from, to)
ColorChange(x, y, from, to) == [x |-> x, y |-> y, from |-> from, to |-> to]

\* ByteEncodeMap::new(), with encoded_byte set
ByteEncodeMap(byte) == [encoded_byte |-> byte, affected_points |-> <<>>]

\* EncodedImage::pixels_changed
RECURSIVE pixels_changed(_)
pixels_changed(map) ==
    IF map = <<>> THEN 0 ELSE Len(Head(map).affected_points) + pixels_changed(Tail(map))

\* bytes_needed_for_data: usize arithmetic.  When data.len() * 8 is less than
\* offset * 3 * 8 the subtraction underflows: a build with overflow checks
\* panics there, a build without them wraps to 2^64 - d, and for the values
\* of this model (d * skip_c below 2^31, lsb_c at most 8) the quotient is at
\* least 2^60, above every image buffer length.  That case is the record with
\* underflow = TRUE; value then holds nothing.
bytes_needed_for_data(len, rules) ==
    LET data_bits == len * 8
        skipped_bits == rules.offset * RGB_BYTES * 8
    IN  IF data_bits < skipped_bits
        THEN [underflow |-> TRUE, value |-> 0]
        ELSE [underflow |-> FALSE,
              value |-> ((data_bits - skipped_bits) * rules.skip_c) \div rules.lsb_c]

\* match self.encoding_position, then real_offset += self.offset
real_offset(self) ==
    LET w == self.source_image.width
        h == self.source_image.height
        p == self.encoding_position
        base == CASE p.kind = "TopLeft" -> 0
                  [] p.kind = "TopRight" -> w
                  [] p.kind = "BottomLeft" -> h
                  [] p.kind = "BottomRight" -> w + h
                  [] p.kind = "Center" -> (w + h) \div 2
                  [] p.kind = "At" -> p.x * p.y
    IN  base + self.offset

\* the mutable chunk bits_ptr[count .. count + lsb_c] of the byte's bit view
\* variant of bit_chunk: the chunks taken from the high end of the byte down
bit_chunk_high_first(bits_ptr, count, lsb_c) ==
    SubSeq(bits_ptr, BYTE_STEP - count - lsb_c + 1, BYTE_STEP - count)

bit_chunk(bits_ptr, count, lsb_c) == SubSeq(bits_ptr, count + 1, count + lsb_c)

\* variant of put_bits: the chunk written to the lsb_c highest bits
put_bits_high(bits, into, lsb_c) ==
    [i \in 1..BYTE_STEP |->
        IF i > BYTE_STEP - lsb_c THEN bits[i - (BYTE_STEP - lsb_c)] ELSE into[i]]

\* put_bits: into[i] = bits[i] for i in 0 .. lsb_c
put_bits(bits, into, lsb_c) ==
    [i \in 1..BYTE_STEP |-> IF i <= lsb_c THEN bits[i] ELSE into[i]]

\* variant of set_channel: the byte written to every channel of the pixel
set_every_channel(pixel, channel, byte) == [c \in DOMAIN pixel |-> byte]

\* channels_mut().get_mut(encoding_channel): the pixel with that one channel byte replaced
set_channel(pixel, channel, byte) == [pixel EXCEPT ![ChannelIndex(channel)] = byte]

\* The local state of encode_data from the entry of 'encode_rounds on:
\*   rgb_img             the working copy img.to_rgb8() (its pixels)
\*   next                0-based index of the pixel pixel_iter yields next
\*                       (skip(real_offset).step_by(skip_c) over enumerate_pixels_mut)
\*   pixel_iter_counter  img.pixels().count(), less one per pixel yielded
\*   encode_maps         the ByteEncodeMaps pushed so far
\*   j                   1-based number of the byte data_iterator yields next
\*   count               current_byte_iter_count
\*   current_byte_map    the map of the byte being encoded
\*   at                  where control is: "data_iter" (head of the for loop),
\*                       "while" (head of the while loop), "after_data_iter",
\*                       "done" (the loop is left), "panic"
EncodeLocals(self) ==
    [rgb_img |-> self.source_image.pixels,
     next |-> real_offset(self),
     pixel_iter_counter |-> PixelCount(self.source_image),
     encode_maps |-> <<>>,
     j |-> 1,
     count |-> 0,
     current_byte_map |-> ByteEncodeMap(0),
     at |-> "data_iter"]

\* head of 'data_iter: the next byte of data, if any, and its fresh map
data_iter(self, data, st) ==
    IF st.j > Len(data)
    THEN [st EXCEPT !.at = "after_data_iter"]
    ELSE [st EXCEPT !.at = "while",
                    !.count = 0,
                    !.current_byte_map = ByteEncodeMap(data[st.j])]

\* the pixel with the chunk of the byte written into its channel
modified_pixel(self, pixel, byte, count) ==
    LET bits_to_encode_slice == bit_chunk(byte_to_bits(byte), count, self.lsb_c)
        bits_to_modify == byte_to_bits(pixel[ChannelIndex(self.encoding_channel)])
    IN  set_channel(pixel, self.encoding_channel,
            bits_to_byte(put_bits(bits_to_encode_slice, bits_to_modify, self.lsb_c)))

\* variant of while_bits: the chunk is written to the pixel the iterator
\* yielded before this one, when there is one
while_bits_on_previous(self, data, st) ==
    IF st.count >= BYTE_STEP
    THEN [st EXCEPT !.encode_maps = Append(@, st.current_byte_map),
                    !.j = @ + 1,
                    !.at = "data_iter"]
    ELSE IF st.count + self.lsb_c > BYTE_STEP
    THEN [st EXCEPT !.at = "panic"]
    ELSE IF st.next < Len(st.rgb_img)
    THEN LET w == self.source_image.width
             at == IF st.next - self.skip_c >= real_offset(self)
                   THEN st.next - self.skip_c ELSE st.next
             old == st.rgb_img[at + 1]
             new == modified_pixel(self, old, data[st.j], st.count)
             color_change == ColorChange(at % w, at \div w, old, new)
         IN  [st EXCEPT !.rgb_img[at + 1] = new,
                        !.next = @ + self.skip_c,
                        !.pixel_iter_counter = @ - 1,
                        !.current_byte_map.affected_points = Append(@, color_change),
                        !.count = @ + self.lsb_c]
    ELSE [st EXCEPT !.at = "after_data_iter"]

\* one turn of the while loop over the bits of data[j]:
\*   all 8 bits consumed: encode_maps.push(current_byte_map), on to the next byte;
\*   bits_ptr[count .. count + lsb_c] out of range: panic;
\*   pixel_iter.next() is Some: the chunk is written and recorded;
\*   pixel_iter.next() is None: break 'data_iter (the map is not pushed)
while_bits(self, data, st) ==
    IF st.count >= BYTE_STEP
    THEN [st EXCEPT !.encode_maps = Append(@, st.current_byte_map),
                    !.j = @ + 1,
                    !.at = "data_iter"]
    ELSE IF st.count + self.lsb_c > BYTE_STEP
    THEN [st EXCEPT !.at = "panic"]
    ELSE IF st.next < Len(st.rgb_img)
    THEN LET w == self.source_image.width
             old == st.rgb_img[st.next + 1]
             new == modified_pixel(self, old, data[st.j], st.count)
             color_change == ColorChange(st.next % w, st.next \div w, old, new)
         IN  [st EXCEPT !.rgb_img[st.next + 1] = new,
                        !.next = @ + self.skip_c,
                        !.pixel_iter_counter = @ - 1,
                        !.current_byte_map.affected_points = Append(@, color_change),
                        !.count = @ + self.lsb_c]
    ELSE [st EXCEPT !.at = "after_data_iter"]

\* what follows 'data_iter in a round of 'encode_rounds: break, or continue
\* with a fresh data.iter()
after_data_iter(self, st) ==
    IF self.spread
    THEN IF st.pixel_iter_counter = 0
         THEN [st EXCEPT !.at = "done"]
         ELSE [st EXCEPT !.at = "data_iter", !.j = 1]
    ELSE [st EXCEPT !.at = "done"]

\* the step taken from st
encode_step(self, data, st) ==
    CASE st.at = "data_iter" -> data_iter(self, data, st)
      [] st.at = "while" -> while_bits(self, data, st)
      [] st.at = "after_data_iter" -> after_data_iter(self, st)

\* whether st is at the start of a round of 'encode_rounds
RoundHead(st) == st.at = "data_iter" /\ st.j = 1

\* 'encode_rounds run to its end.  head is the state the previous round
\* started in: a round that starts in that state again is followed by the
\* same round for ever (at = "loops").
RECURSIVE encode_rounds(_, _, _, _)
encode_rounds(self, data, st, head) ==
    IF st.at \in {"done", "panic"} THEN st
    ELSE IF RoundHead(st) /\ st = head THEN [st EXCEPT !.at = "loops"]
    ELSE encode_rounds(self, data, encode_step(self, data, st),
             IF RoundHead(st) THEN st ELSE head)

\* variant of EncodedImage: the working copy kept as the original image too
EncodedImage_of_copy(img, rgb_img, encode_maps) ==
    [outcome |-> "Ok",
     original_image |-> Image(img.width, img.height, rgb_img),
     altered_image |-> Image(img.width, img.height, rgb_img),
     map |-> encode_maps]

\* Ok(EncodedImage { original_image: img.clone(), altered_image: rgb_img, map })
EncodedImage(img, rgb_img, encode_maps) ==
    [outcome |-> "Ok",
     original_image |-> img,
     altered_image |-> Image(img.width, img.height, rgb_img),
     map |-> encode_maps]

\* a call that returned no EncodedImage: Err(..), a panic, or no return at all
NoEncodedImage(outcome) ==
    [outcome |-> outcome, original_image |-> NoImage, altered_image |-> NoImage, map |-> <<>>]

\* encode_data (encode_bytes and encode_string only forward to it): the set
\* of results the builds of the crate can produce.  They differ only where
\* bytes_needed_for_data underflows: a panic with overflow checks, and
\* without them a wrapped estimate that fails the capacity comparison.
encode_data(self, data) ==
    LET img == self.source_image
        bytes_per_round == bytes_needed_for_data(Len(data), self)
    IN  IF bytes_per_round.underflow
        THEN {NoEncodedImage("panic"), NoEncodedImage("Err")}
        ELSE IF bytes_per_round.value <= PixelCount(img) * RGB_BYTES
        THEN LET start == EncodeLocals(self)
                 st == encode_rounds(self, data, start, [start EXCEPT !.at = "none"])
             IN  IF st.at = "done"
                 THEN {EncodedImage(img, st.rgb_img, st.encode_maps)}
                 ELSE {NoEncodedImage(st.at)}
        ELSE {NoEncodedImage("Err")}

\* variant of set_step_by_n_pixels: n stored as it is given
ImageEncoder_set_step_unclamped(self, n) == [self EXCEPT !.skip_c = n]

\* ImageEncoder::set_step_by_n_pixels
ImageEncoder_set_step_by_n_pixels(self, n) ==
    IF n < 1 THEN [self EXCEPT !.skip_c = 1] ELSE [self EXCEPT !.skip_c = n]

(***************************************************************************)
(* ImageDecoder.                                                           *)
(***************************************************************************)
\* Option<&[u8]>
None == [some |-> FALSE, bytes |-> <<>>]
Some(bytes) == [some |-> TRUE, bytes |-> bytes]

\* impl Default for ImageDecoder, then this.source_image = img
ImageDecoder_from(img) ==
    [lsb_c |-> 1, skip_c |-> 1, offset |-> 0, spread |-> FALSE,
     marker |-> None,
     encoding_position |-> TopLeft, encoding_channel |-> "Blue",
     source_image |-> img]

\* no decoder has been built
NoDecoder == ImageDecoder_from(NoImage)

\* ImageDecoder::set_step_by_n_pixels
ImageDecoder_set_step_by_n_pixels(self, n) ==
    IF n < 1 THEN [self EXCEPT !.skip_c = 1] ELSE [self EXCEPT !.skip_c = n]

\* The local state of decode while it runs:
\*   next           0-based index of the pixel the iterator yields next
\*                  (skip(offset).step_by(skip_c) over enumerate_pixels)
\*   pixels_read    how many pixels the iterator has yielded
\*   current_byte   the bit view of the byte under construction
\*   iter_count, decoded, sequence_hint, hit_marker   as in the code
\*   panicked       a bit index went out of range
DecodeLocals(self) ==
    [next |-> self.offset,
     pixels_read |-> 0,
     current_byte |-> byte_to_bits(0),
     iter_count |-> 0,
     decoded |-> <<>>,
     sequence_hint |-> <<>>,
     hit_marker |-> FALSE,
     panicked |-> FALSE]

\* for i in 0..lsb_c { current_byte_as_bits.set(iter_count, pixel_lsb[i]); iter_count += 1 }
\* Turn i reads pixel_lsb[i], which needs i < 8, and sets bit iter_count + i,
\* which needs iter_count + i < 8: the loop panics when iter_count + lsb_c
\* exceeds 8, and else has copied bits 0 .. lsb_c of the pixel's channel to
\* bits iter_count .. iter_count + lsb_c of the byte.
take_lsb(self, st, pixel_lsb) ==
    IF st.iter_count + self.lsb_c > BYTE_STEP
    THEN [st EXCEPT !.panicked = TRUE]
    ELSE [st EXCEPT
             !.current_byte =
                 [k \in 1..BYTE_STEP |->
                     IF st.iter_count < k /\ k <= st.iter_count + self.lsb_c
                     THEN pixel_lsb[k - st.iter_count]
                     ELSE st.current_byte[k]],
             !.iter_count = @ + self.lsb_c]

\* variant of byte_completed: the window never drops its oldest byte
byte_completed_no_remove(self, st) ==
    LET target_sequence == self.marker.bytes
        target_sequence_len == Len(target_sequence)
        current_byte == bits_to_byte(st.current_byte)
        sequence_hint ==
            IF target_sequence_len = 0 THEN st.sequence_hint
            ELSE Append(st.sequence_hint, current_byte)
        hit == /\ target_sequence_len # 0
               /\ Len(sequence_hint) = target_sequence_len
               /\ sequence_hint = target_sequence
    IN  IF hit
        THEN [st EXCEPT !.decoded = Append(@, current_byte),
                        !.sequence_hint = sequence_hint,
                        !.hit_marker = TRUE]
        ELSE [st EXCEPT !.decoded = Append(@, current_byte),
                        !.sequence_hint = sequence_hint,
                        !.iter_count = 0,
                        !.current_byte = byte_to_bits(0)]

\* variant of byte_completed: the window is never compared with the marker
byte_completed_no_compare(self, st) ==
    LET current_byte == bits_to_byte(st.current_byte)
        pushed == Append(st.sequence_hint, current_byte)
    IN  [st EXCEPT !.decoded = Append(@, current_byte),
                   !.sequence_hint =
                       IF Len(self.marker.bytes) = 0 THEN st.sequence_hint
                       ELSE IF Len(pushed) > Len(self.marker.bytes) THEN Tail(pushed)
                       ELSE pushed,
                   !.iter_count = 0,
                   !.current_byte = byte_to_bits(0)]

\* if iter_count == BYTE_STEP { .. }: the completed byte, the marker window, the reset.
\* On a marker hit the loop breaks before the reset.
byte_completed(self, st) ==
    LET target_sequence == self.marker.bytes
        target_sequence_len == Len(target_sequence)
        current_byte == bits_to_byte(st.current_byte)
        pushed == Append(st.sequence_hint, current_byte)
        sequence_hint ==
            IF target_sequence_len = 0 THEN st.sequence_hint
            ELSE IF Len(pushed) > target_sequence_len THEN Tail(pushed)
            ELSE pushed
        hit == /\ target_sequence_len # 0
               /\ Len(sequence_hint) = target_sequence_len
               /\ sequence_hint = target_sequence
    IN  IF hit
        THEN [st EXCEPT !.decoded = Append(@, current_byte),
                        !.sequence_hint = sequence_hint,
                        !.hit_marker = TRUE]
        ELSE [st EXCEPT !.decoded = Append(@, current_byte),
                        !.sequence_hint = sequence_hint,
                        !.iter_count = 0,
                        !.current_byte = byte_to_bits(0)]

\* one turn of 'pixel_iter, on the pixel the iterator yields
pixel_iter(self, st) ==
    LET pixel == self.source_image.pixels[st.next + 1]
        pixel_lsb == byte_to_bits(pixel[ChannelIndex(self.encoding_channel)])
        taken == take_lsb(self,
                     [st EXCEPT !.next = @ + self.skip_c, !.pixels_read = @ + 1],
                     pixel_lsb)
    IN  IF taken.panicked THEN taken
        ELSE IF taken.iter_count = BYTE_STEP THEN byte_completed(self, taken)
        ELSE taken

\* whether 'pixel_iter takes another turn
pixel_iter_continues(self, st) ==
    /\ ~st.panicked
    /\ ~st.hit_marker
    /\ st.next < PixelCount(self.source_image)

RECURSIVE decode_loop(_, _)
decode_loop(self, st) ==
    IF pixel_iter_continues(self, st) THEN decode_loop(self, pixel_iter(self, st)) ELSE st

\* Ok(DecodedImage { data, hit_marker, elapsed }), without the elapsed time and
\* with the number of pixels the loop read
DecodedImage(st) ==
    [outcome |-> IF st.panicked THEN "panic" ELSE "Ok",
     data |-> IF st.panicked THEN <<>> ELSE st.decoded,
     hit_marker |-> (~st.panicked /\ st.hit_marker),
     pixels_read |-> st.pixels_read]

\* ImageDecoder::decode
decode(self) == DecodedImage(decode_loop(self, DecodeLocals(self)))

(***************************************************************************)
(* The calls on an ImageEncoder.  A setter returns the encoder itself.     *)
(* set_padding is left out: encode_data reads the padding only to take one *)
(* of two branches that both break 'encode_rounds.                         *)
(***************************************************************************)
NoCall == [op |-> "none", data |-> <<>>]
Call(op, data) == [op |-> op, data |-> data]
ReturnedSelf == NoEncodedImage("self")
NoFile == [image |-> NoImage, data |-> <<>>, written |-> FALSE]
EncoderSetter(self) ==
    /\ encoder' = self
    /\ call' = Call("setter", <<>>)
    /\ ret' = ReturnedSelf
    /\ UNCHANGED <<decoder, saved, pc, loop>>

EncSetOffset == \E offset \in 0..MaxOffset :
    EncoderSetter([encoder EXCEPT !.offset = offset])

EncSetUseNLsb == \E n \in 1..BYTE_STEP :
    EncoderSetter([encoder EXCEPT !.lsb_c = n])

EncSetUseChannel == \E channel \in RgbChannels :
    EncoderSetter([encoder EXCEPT !.encoding_channel = channel])

EncSetStepByNPixels == \E n \in 0..MaxStride :
    EncoderSetter(ImageEncoder_set_step_by_n_pixels(encoder, n))

EncSetSpread == \E value \in BOOLEAN :
    EncoderSetter([encoder EXCEPT !.spread = value])

EncSetPosition == \E value \in ImagePositions :
    EncoderSetter([encoder EXCEPT !.encoding_position = value])

\* encode_bytes(data): &self, so the encoder is left as it is
EncodeBytes == \E data \in Payloads :
    /\ call' = Call("encode_bytes", data)
    /\ ret' \in encode_data(encoder, data)
    /\ UNCHANGED <<encoder, decoder, saved, pc, loop>>

\* ImageEncoder::from(readable) on an image file
InitEncoder ==
    /\ encoder \in {ImageEncoder_from(img) : img \in SourceImages}
    /\ decoder = NoDecoder
    /\ saved = NoFile
    /\ call = NoCall
    /\ ret = ReturnedSelf
    /\ pc = "idle"
    /\ loop = <<>>

NextEncoder ==
    \/ EncSetOffset
    \/ EncSetUseNLsb
    \/ EncSetUseChannel
    \/ EncSetStepByNPixels
    \/ EncSetSpread
    \/ EncSetPosition
    \/ EncodeBytes

SpecEncoder == InitEncoder /\ [][NextEncoder]_vars

(***************************************************************************)
(* The calls on an ImageDecoder.                                           *)
(***************************************************************************)
\* the arguments given to until_marker
Markers == {None, Some(<<>>), Some(<<45>>), Some(<<65>>), Some(<<65, 45>>)}

\* the file a spread encode_bytes wrote (tests/e2e.rs, encode_bytes_spread)
SpreadEncodedImages ==
    {r.altered_image :
        r \in {x \in encode_data(
                   [ImageEncoder_from(PatternImage(3, 2)) EXCEPT !.spread = TRUE, !.lsb_c = 4],
                   <<65, 45>>) : x.outcome = "Ok"}}

\* the image files an ImageDecoder is built from
DecoderImages == SourceImages \cup SpreadEncodedImages

DecoderSetter(self) ==
    /\ decoder' = self
    /\ call' = Call("setter", <<>>)
    /\ ret' = ReturnedSelf
    /\ UNCHANGED <<encoder, saved, pc, loop>>

DecSetOffset == \E offset \in 0..MaxOffset :
    DecoderSetter([decoder EXCEPT !.offset = offset])

DecSetUseNLsb == \E n \in 1..BYTE_STEP :
    DecoderSetter([decoder EXCEPT !.lsb_c = n])

DecSetUseChannel == \E channel \in RgbChannels :
    DecoderSetter([decoder EXCEPT !.encoding_channel = channel])

DecSetStepByNPixels == \E n \in 0..MaxStride :
    DecoderSetter(ImageDecoder_set_step_by_n_pixels(decoder, n))

DecSetSpread == \E value \in BOOLEAN :
    DecoderSetter([decoder EXCEPT !.spread = value])

DecSetPosition == \E value \in ImagePositions :
    DecoderSetter([decoder EXCEPT !.encoding_position = value])

\* until_marker(marker_sequence)
UntilMarker == \E marker_sequence \in Markers :
    DecoderSetter([decoder EXCEPT !.marker = marker_sequence])

\* decode(): &self, so the decoder is left as it is
Decode ==
    /\ call' = Call("decode", <<>>)
    /\ ret' = decode(decoder)
    /\ UNCHANGED <<encoder, decoder, saved, pc, loop>>

\* ImageDecoder::from(readable) on an image file
InitDecoder ==
    /\ decoder \in {ImageDecoder_from(img) : img \in DecoderImages}
    /\ encoder = ImageEncoder_from(NoImage)
    /\ saved = NoFile
    /\ call = NoCall
    /\ ret = ReturnedSelf
    /\ pc = "idle"
    /\ loop = <<>>

NextDecoder ==
    \/ DecSetOffset
    \/ DecSetUseNLsb
    \/ DecSetUseChannel
    \/ DecSetStepByNPixels
    \/ DecSetSpread
    \/ DecSetPosition
    \/ UntilMarker
    \/ Decode

SpecDecoder == InitDecoder /\ [][NextDecoder]_vars

(***************************************************************************)
(* tests/e2e.rs: an encoder is built from an image file and configured,    *)
(* encode_bytes embeds the payload, the result is saved as PNG, a decoder  *)
(* is built from that file with the same rules and a marker, and decodes.  *)
(* pc is the position in the test: "configure", "encoded", "saved",        *)
(* "decoded", or "failed" when encode_bytes returned no EncodedImage.      *)
(***************************************************************************)
TestSetOffset == pc = "configure" /\ EncSetOffset
TestSetUseNLsb == pc = "configure" /\ EncSetUseNLsb
TestSetUseChannel == pc = "configure" /\ EncSetUseChannel
TestSetStepByNPixels == pc = "configure" /\ EncSetStepByNPixels
TestSetSpread == pc = "configure" /\ EncSetSpread

TestEncodeBytes == \E data \in Payloads :
    /\ pc = "configure"
    /\ call' = Call("encode_bytes", data)
    /\ ret' \in encode_data(encoder, data)
    /\ pc' = IF ret'.outcome = "Ok" THEN "encoded" ELSE "failed"
    /\ UNCHANGED <<encoder, decoder, saved, loop>>

\* EncodedImage::save(path, ImageFormat::Png): the PNG holds the altered pixels
TestSave ==
    /\ pc = "encoded"
    /\ saved' = [image |-> ret.altered_image, data |-> call.data, written |-> TRUE]
    /\ call' = Call("save", <<>>)
    /\ pc' = "saved"
    /\ UNCHANGED <<encoder, decoder, ret, loop>>

\* the rules of the encoder given to a decoder built from the saved file
SameRules(enc, dec) ==
    ImageDecoder_set_step_by_n_pixels(
        [dec EXCEPT !.offset = enc.offset,
                    !.lsb_c = enc.lsb_c,
                    !.encoding_channel = enc.encoding_channel],
        enc.skip_c)

\* ImageDecoder::from(&mut created_image).set_offset(..).set_use_n_lsb(..)
\*     .until_marker(..).decode()
TestDecode == \E marker_sequence \in Markers :
    /\ pc = "saved"
    /\ decoder' = [SameRules(encoder, ImageDecoder_from(saved.image))
                      EXCEPT !.marker = marker_sequence]
    /\ call' = Call("decode", <<>>)
    /\ ret' = decode(decoder')
    /\ pc' = "decoded"
    /\ UNCHANGED <<encoder, saved, loop>>

Init ==
    /\ encoder \in {ImageEncoder_from(img) : img \in SourceImages}
    /\ decoder = NoDecoder
    /\ saved = NoFile
    /\ call = NoCall
    /\ ret = ReturnedSelf
    /\ pc = "configure"
    /\ loop = <<>>

Next ==
    \/ TestSetOffset
    \/ TestSetUseNLsb
    \/ TestSetUseChannel
    \/ TestSetStepByNPixels
    \/ TestSetSpread
    \/ TestEncodeBytes
    \/ TestSave
    \/ TestDecode

Spec == Init /\ [][Next]_vars

(***************************************************************************)
(* One call followed step by step: encode_bytes through the rounds of      *)
(* 'encode_rounds, decode through the turns of 'pixel_iter.  pc is "idle"  *)
(* before the call, "encode_data" or "decode" inside it, and "done" once   *)
(* it has returned or panicked; loop holds the locals of the call.  The    *)
(* object the call is made on has any rules its setters can give it.       *)
(***************************************************************************)
EncoderRules ==
    {[ImageEncoder_from(img) EXCEPT
          !.lsb_c = n, !.skip_c = step, !.offset = offset, !.spread = spread,
          !.encoding_channel = channel, !.encoding_position = position] :
        img \in SourceImages, n \in 1..BYTE_STEP, step \in 1..MaxStride,
        offset \in 0..MaxOffset, spread \in BOOLEAN, channel \in RgbChannels,
        position \in ImagePositions}

DecoderRules ==
    {[ImageDecoder_from(img) EXCEPT
          !.lsb_c = n, !.skip_c = step, !.offset = offset,
          !.encoding_channel = channel, !.marker = marker] :
        img \in DecoderImages, n \in 1..BYTE_STEP, step \in 1..MaxStride,
        offset \in 0..MaxOffset, channel \in RgbChannels, marker \in Markers}

\* encode_data up to the entry of 'encode_rounds
StartEncode == \E data \in Payloads :
    LET bytes_per_round == bytes_needed_for_data(Len(data), encoder)
        fits == /\ ~bytes_per_round.underflow
                /\ bytes_per_round.value <= PixelCount(encoder.source_image) * RGB_BYTES
    IN  /\ pc = "idle"
        /\ encoder.source_image # NoImage
        /\ call' = Call("encode_bytes", data)
        /\ IF fits
           THEN /\ pc' = "encode_data"
                /\ loop' = EncodeLocals(encoder)
                /\ ret' = ret
           ELSE /\ pc' = "done"
                /\ loop' = loop
                /\ ret' \in IF bytes_per_round.underflow
                            THEN {NoEncodedImage("panic"), NoEncodedImage("Err")}
                            ELSE {NoEncodedImage("Err")}
        /\ UNCHANGED <<encoder, decoder, saved>>

\* the head of the for loop over data
DataIter ==
    /\ pc = "encode_data"
    /\ loop.at = "data_iter"
    /\ loop' = data_iter(encoder, call.data, loop)
    /\ UNCHANGED <<encoder, decoder, saved, call, ret, pc>>

\* one turn of the while loop over the bits of a byte
WhileBits ==
    /\ pc = "encode_data"
    /\ loop.at = "while"
    /\ loop' = while_bits(encoder, call.data, loop)
    /\ UNCHANGED <<encoder, decoder, saved, call, ret, pc>>

\* if self.spread { .. } else { .. } after the for loop
AfterDataIter ==
    /\ pc = "encode_data"
    /\ loop.at = "after_data_iter"
    /\ loop' = after_data_iter(encoder, loop)
    /\ UNCHANGED <<encoder, decoder, saved, call, ret, pc>>

\* 'encode_rounds is left: Ok(EncodedImage { .. }), or the panic
EncodeReturn ==
    /\ pc = "encode_data"
    /\ loop.at \in {"done", "panic"}
    /\ ret' = IF loop.at = "done"
              THEN EncodedImage(encoder.source_image, loop.rgb_img, loop.encode_maps)
              ELSE NoEncodedImage("panic")
    /\ pc' = "done"
    /\ UNCHANGED <<encoder, decoder, saved, call, loop>>

\* decode up to the entry of 'pixel_iter
StartDecode ==
    /\ pc = "idle"
    /\ decoder.source_image # NoImage
    /\ call' = Call("decode", <<>>)
    /\ pc' = "decode"
    /\ loop' = DecodeLocals(decoder)
    /\ UNCHANGED <<encoder, decoder, saved, ret>>

\* one turn of 'pixel_iter
PixelIter ==
    /\ pc = "decode"
    /\ pixel_iter_continues(decoder, loop)
    /\ loop' = pixel_iter(decoder, loop)
    /\ UNCHANGED <<encoder, decoder, saved, call, ret, pc>>

\* the loop is left: Ok(DecodedImage { .. }), or the panic
DecodeReturn ==
    /\ pc = "decode"
    /\ ~pixel_iter_continues(decoder, loop)
    /\ ret' = DecodedImage(loop)
    /\ pc' = "done"
    /\ UNCHANGED <<encoder, decoder, saved, call, loop>>

InitSteps ==
    /\ \/ encoder \in EncoderRules /\ decoder = NoDecoder
       \/ encoder = ImageEncoder_from(NoImage) /\ decoder \in DecoderRules
    /\ saved = NoFile
    /\ call = NoCall
    /\ ret = ReturnedSelf
    /\ pc = "idle"
    /\ loop = <<>>

NextSteps ==
    \/ StartEncode
    \/ DataIter
    \/ WhileBits
    \/ AfterDataIter
    \/ EncodeReturn
    \/ StartDecode
    \/ PixelIter
    \/ DecodeReturn

\* the calls are synchronous and single-threaded: a call that has a next
\* step takes it
SpecSteps == InitSteps /\ [][NextSteps]_vars /\ WF_vars(NextSteps)

\* the step-by-step calls return what the calls taken whole return
StepsAgree ==
    pc = "done" =>
        /\ call.op = "encode_bytes" => ret \in encode_data(encoder, call.data)
        /\ call.op = "decode" => ret = decode(decoder)

(***************************************************************************)
(* Quantities the properties are stated with.                              *)
(***************************************************************************)
\* ceil(8 * payloadLength / bitsPerPixel)
required_visits(len, k) == (8 * len + k - 1) \div k

\* how many of the indices start, start + stride, ... lie below n
visits_from(start, stride, n) ==
    IF start >= n THEN 0 ELSE (n - start + stride - 1) \div stride

\* the pixels one pass of the encoder's traversal yields
EncoderVisits(enc) ==
    visits_from(real_offset(enc), enc.skip_c, PixelCount(enc.source_image))

\* the pixels the decoder's traversal yields
DecoderVisits(dec) ==
    visits_from(dec.offset, dec.skip_c, PixelCount(dec.source_image))

DividesByte(k) == k \in {1, 2, 4, 8}

\* m is not empty, data ends with m, and m occurs nowhere earlier in data
EndsWithOnly(data, m) ==
    /\ Len(m) > 0
    /\ Len(data) >= Len(m)
    /\ SubSeq(data, Len(data) - Len(m) + 1, Len(data)) = m
    /\ \A i \in 1..(Len(data) - Len(m)) : SubSeq(data, i, i + Len(m) - 1) # m

EncodeReturned == call.op = "encode_bytes"
EncodeSucceeded == call.op = "encode_bytes" /\ ret.outcome = "Ok"
DecodeReturned == call.op = "decode"

\* the channel byte of pixel number i (0-based) of an image
ChannelByte(img, i, channel) == img.pixels[i + 1][ChannelIndex(channel)]

(***************************************************************************)
(* C1 (Spec).  Round trip with marker: when the payload P ++ M ends with   *)
(* the non-empty marker M, M occurs nowhere earlier in it, and the         *)
(* traversal yields the pixel visits the payload needs, encode_bytes       *)
(* succeeds and decoding the saved image with the same rules and the       *)
(* marker M returns hitMarker = true and exactly the bytes P ++ M.  Stated *)
(* for the configurations of the end-to-end test: spread off and a         *)
(* bitsPerPixel that divides 8.                                            *)
(***************************************************************************)
RoundTripCase(data, m) ==
    /\ ~encoder.spread
    /\ DividesByte(encoder.lsb_c)
    /\ EndsWithOnly(data, m)
    /\ required_visits(Len(data), encoder.lsb_c) <= EncoderVisits(encoder)

RoundTripWithMarker ==
    /\ pc = "failed" => \A m \in Markers : ~RoundTripCase(call.data, m.bytes)
    /\ (pc = "decoded" /\ RoundTripCase(saved.data, decoder.marker.bytes)) =>
           /\ ret.outcome = "Ok"
           /\ ret.hit_marker
           /\ ret.data = saved.data

(***************************************************************************)
(* C2 (SpecSteps).  Every encode call and every decode call terminates:    *)
(* the call that is started returns (or panics) after finitely many steps. *)
(***************************************************************************)
EveryCallTerminates == <>(pc = "done")

(***************************************************************************)
(* C3 (SpecEncoder).  With spread = false, a payload that needs more pixel *)
(* visits than the traversal yields is rejected with the capacity error.   *)
(***************************************************************************)
RejectsWhatDoesNotFit ==
    (/\ EncodeReturned
     /\ ~encoder.spread
     /\ required_visits(Len(call.data), encoder.lsb_c) > EncoderVisits(encoder))
        => ret.outcome = "Err"

(***************************************************************************)
(* C4 (SpecEncoder).  With spread = false and bitsPerPixel dividing 8, a   *)
(* payload that needs at most the pixel visits the traversal yields is     *)
(* encoded: the call succeeds and has a change map for every payload byte. *)
(***************************************************************************)
AcceptsWhatFits ==
    (/\ EncodeReturned
     /\ ~encoder.spread
     /\ DividesByte(encoder.lsb_c)
     /\ required_visits(Len(call.data), encoder.lsb_c) <= EncoderVisits(encoder))
        => /\ ret.outcome = "Ok"
           /\ Len(ret.map) = Len(call.data)

(***************************************************************************)
(* C5 (SpecEncoder).  With spread = true, a payload that needs more pixel  *)
(* visits than one pass of the traversal yields, but at most width *       *)
(* height, is encoded: the call succeeds.                                  *)
(***************************************************************************)
SpreadAcceptsBeyondOnePass ==
    (/\ EncodeReturned
     /\ encoder.spread
     /\ DividesByte(encoder.lsb_c)
     /\ required_visits(Len(call.data), encoder.lsb_c) > EncoderVisits(encoder)
     /\ required_visits(Len(call.data), encoder.lsb_c) <= PixelCount(encoder.source_image))
        => ret.outcome = "Ok"

(***************************************************************************)
(* C6 (SpecEncoder).  Channel isolation: in the altered image of every     *)
(* successful encode, each pixel's two channels other than the configured  *)
(* one hold the bytes they hold in the source image.                       *)
(***************************************************************************)
ChannelIsolation ==
    EncodeSucceeded =>
        \A i \in 0..(PixelCount(encoder.source_image) - 1) :
            \A channel \in RgbChannels \ {encoder.encoding_channel} :
                ChannelByte(ret.altered_image, i, channel)
                    = ChannelByte(encoder.source_image, i, channel)

\* a successful encode changed the configured channel of some pixel
ChannelIsolationWitness ==
    /\ EncodeSucceeded
    /\ \E i \in 0..(PixelCount(encoder.source_image) - 1) :
           ChannelByte(ret.altered_image, i, encoder.encoding_channel)
               # ChannelByte(encoder.source_image, i, encoder.encoding_channel)

(***************************************************************************)
(* C7 (SpecEncoder).  High-bit preservation: with bitsPerPixel = k, the    *)
(* configured channel byte of every pixel of the altered image has the     *)
(* top 8 - k bits it has in the source image, and the byte of a pixel the  *)
(* traversal does not visit is the source image's byte.                    *)
(***************************************************************************)
Visited(enc, i) ==
    /\ i >= real_offset(enc)
    /\ (i - real_offset(enc)) % enc.skip_c = 0

HighBitPreservation ==
    EncodeSucceeded =>
        \A i \in 0..(PixelCount(encoder.source_image) - 1) :
            /\ ChannelByte(ret.altered_image, i, encoder.encoding_channel)
                     \div Pow2(encoder.lsb_c)
                 = ChannelByte(encoder.source_image, i, encoder.encoding_channel)
                     \div Pow2(encoder.lsb_c)
            /\ ~Visited(encoder, i) =>
                   ChannelByte(ret.altered_image, i, encoder.encoding_channel)
                       = ChannelByte(encoder.source_image, i, encoder.encoding_channel)

\* a successful encode with k < 8 changed low bits of a channel byte whose
\* top 8 - k bits are not all zero
HighBitPreservationWitness ==
    /\ EncodeSucceeded
    /\ encoder.lsb_c < BYTE_STEP
    /\ \E i \in 0..(PixelCount(encoder.source_image) - 1) :
           /\ ChannelByte(ret.altered_image, i, encoder.encoding_channel)
                  # ChannelByte(encoder.source_image, i, encoder.encoding_channel)
           /\ ChannelByte(encoder.source_image, i, encoder.encoding_channel)
                  \div Pow2(encoder.lsb_c) > 0

(***************************************************************************)
(* C8 (SpecEncoder).  Chunk order: with bitsPerPixel = k dividing 8, the   *)
(* t-th pixel the traversal visits (t from 0, below the visits the payload *)
(* needs) holds in the low k bits of its configured channel the bits       *)
(* [c*k, (c+1)*k) of payload byte j, where j = t div (8/k) and             *)
(* c = t mod (8/k).  For the 4x4 all-zero image, k = 1, Blue, offset 0,    *)
(* stride 1 and payload 0x41, blue of pixels 0..7 becomes 1,0,0,0,0,0,1,0  *)
(* and everything else stays 0.                                            *)
(***************************************************************************)
ScenarioCall ==
    /\ EncodeReturned
    /\ encoder = ImageEncoder_from(new_rgb8(4, 4))
    /\ call.data = <<65>>

ScenarioPixels ==
    [i \in 1..16 |-> IF i \in {1, 7} THEN <<0, 0, 1>> ELSE <<0, 0, 0>>]

ChunkOrder ==
    /\ (EncodeSucceeded /\ DividesByte(encoder.lsb_c)) =>
           LET k == encoder.lsb_c
               per_byte == 8 \div k
               needed == required_visits(Len(call.data), k)
               visited == IF needed < EncoderVisits(encoder)
                          THEN needed ELSE EncoderVisits(encoder)
           IN  \A t \in 0..(visited - 1) :
                   ChannelByte(ret.altered_image,
                               real_offset(encoder) + t * encoder.skip_c,
                               encoder.encoding_channel) % Pow2(k)
                       = (call.data[(t \div per_byte) + 1]
                              \div Pow2((t % per_byte) * k)) % Pow2(k)
    /\ ScenarioCall =>
           /\ ret.outcome = "Ok"
           /\ ret.altered_image = Image(4, 4, ScenarioPixels)

\* the scenario's call has returned successfully
ChunkOrderWitness == ScenarioCall /\ ret.outcome = "Ok"

(***************************************************************************)
(* C9 (SpecDecoder).  No-marker exhaustion: decode with no marker, or with *)
(* an empty one, returns exactly floor(v * bitsPerPixel / 8) bytes, v the  *)
(* number of pixels its traversal yields, and hitMarker = false.           *)
(***************************************************************************)
NoMarkerExhaustion ==
    (DecodeReturned /\ decoder.marker.bytes = <<>>) =>
        /\ ret.outcome = "Ok"
        /\ Len(ret.data) = (DecoderVisits(decoder) * decoder.lsb_c) \div 8
        /\ ~ret.hit_marker

(***************************************************************************)
(* C10 (SpecEncoder).  Encode never mutates its input: a call of           *)
(* encode_bytes, whatever it returns, leaves the encoder's source image as *)
(* it was, and the original image of a returned EncodedImage is that       *)
(* source image.                                                           *)
(***************************************************************************)
EncodeNeverMutatesInput ==
    [][call'.op = "encode_bytes" =>
          /\ encoder'.source_image = encoder.source_image
          /\ ret'.outcome = "Ok" => ret'.original_image = encoder.source_image]_vars

\* a successful encode whose altered image differs from the source image
EncodeNeverMutatesInputWitness ==
    /\ EncodeSucceeded
    /\ ret.altered_image # encoder.source_image
    /\ ret.original_image = encoder.source_image

(***************************************************************************)
(* C11 (SpecSteps).  No operation aborts: for every bitsPerPixel in 1..8,  *)
(* every pixelOffset and every payload length, a call of encode_bytes or   *)
(* of decode that has finished has returned a result or an error value;    *)
(* it has not panicked.                                                    *)
(***************************************************************************)
NoOperationAborts == pc = "done" => ret.outcome # "panic"

(***************************************************************************)
(* The setters called in any order on one object, an encoder or a decoder  *)
(* that ImageEncoder::from or ImageDecoder::from built with the default    *)
(* rules.  A call of set_step_by_n_pixels is recorded with its argument.   *)
(***************************************************************************)
RulesEncSetStepByNPixels == \E n \in 0..MaxStride :
    /\ encoder.source_image # NoImage
    /\ encoder' = ImageEncoder_set_step_by_n_pixels(encoder, n)
    /\ call' = Call("ImageEncoder::set_step_by_n_pixels", <<n>>)
    /\ ret' = ReturnedSelf
    /\ UNCHANGED <<decoder, saved, pc, loop>>

RulesDecSetStepByNPixels == \E n \in 0..MaxStride :
    /\ decoder.source_image # NoImage
    /\ decoder' = ImageDecoder_set_step_by_n_pixels(decoder, n)
    /\ call' = Call("ImageDecoder::set_step_by_n_pixels", <<n>>)
    /\ ret' = ReturnedSelf
    /\ UNCHANGED <<encoder, saved, pc, loop>>

RulesEncSetOffset == encoder.source_image # NoImage /\ EncSetOffset
RulesEncSetUseNLsb == encoder.source_image # NoImage /\ EncSetUseNLsb
RulesEncSetUseChannel == encoder.source_image # NoImage /\ EncSetUseChannel
RulesEncSetSpread == encoder.source_image # NoImage /\ EncSetSpread
RulesEncSetPosition == encoder.source_image # NoImage /\ EncSetPosition
RulesDecSetOffset == decoder.source_image # NoImage /\ DecSetOffset
RulesDecSetUseNLsb == decoder.source_image # NoImage /\ DecSetUseNLsb
RulesDecSetUseChannel == decoder.source_image # NoImage /\ DecSetUseChannel
RulesDecSetSpread == decoder.source_image # NoImage /\ DecSetSpread
RulesDecSetPosition == decoder.source_image # NoImage /\ DecSetPosition
RulesUntilMarker == decoder.source_image # NoImage /\ UntilMarker

InitRules ==
    /\ \/ /\ encoder \in {ImageEncoder_from(img) : img \in SourceImages}
          /\ decoder = NoDecoder
       \/ /\ encoder = ImageEncoder_from(NoImage)
          /\ decoder \in {ImageDecoder_from(img) : img \in SourceImages}
    /\ saved = NoFile
    /\ call = NoCall
    /\ ret = ReturnedSelf
    /\ pc = "idle"
    /\ loop = <<>>

NextRules ==
    \/ RulesEncSetOffset
    \/ RulesEncSetUseNLsb
    \/ RulesEncSetUseChannel
    \/ RulesEncSetStepByNPixels
    \/ RulesEncSetSpread
    \/ RulesEncSetPosition
    \/ RulesDecSetOffset
    \/ RulesDecSetUseNLsb
    \/ RulesDecSetUseChannel
    \/ RulesDecSetStepByNPixels
    \/ RulesDecSetSpread
    \/ RulesDecSetPosition
    \/ RulesUntilMarker

SpecRules == InitRules /\ [][NextRules]_vars

(***************************************************************************)
(* C12 (SpecRules).  Stride invariant: after any sequence of setter calls  *)
(* on an encoder or a decoder that started with the default rules, its     *)
(* stride skip_c is at least 1; set_step_by_n_pixels(n) stores 1 when n is *)
(* below 1 and n otherwise.                                                *)
(***************************************************************************)
StoredStride(n) == IF n < 1 THEN 1 ELSE n

StrideInvariant ==
    /\ encoder.skip_c >= 1
    /\ decoder.skip_c >= 1
    /\ call.op = "ImageEncoder::set_step_by_n_pixels" =>
           encoder.skip_c = StoredStride(call.data[1])
    /\ call.op = "ImageDecoder::set_step_by_n_pixels" =>
           decoder.skip_c = StoredStride(call.data[1])

\* set_step_by_n_pixels(0) has just been called on an encoder whose other
\* rules were set before
StrideInvariantWitness ==
    /\ call = Call("ImageEncoder::set_step_by_n_pixels", <<0>>)
    /\ encoder.skip_c = 1
    /\ encoder.offset > 0
    /\ encoder.spread

(***************************************************************************)
(* C13 (SpecDecoder).  Marker early stop: a decode with a non-empty marker *)
(* M that returns has hit_marker = TRUE exactly when the returned bytes    *)
(* end with M; then M occurs in them only at their end, and the pixels     *)
(* read are just those of the returned bytes; when hit_marker = FALSE, M   *)
(* occurs nowhere in the returned bytes.                                   *)
(***************************************************************************)
EndsWith(data, m) ==
    /\ Len(data) >= Len(m)
    /\ SubSeq(data, Len(data) - Len(m) + 1, Len(data)) = m

OccursIn(data, m) ==
    \E i \in 1..(Len(data) - Len(m) + 1) : SubSeq(data, i, i + Len(m) - 1) = m

MarkerEarlyStop ==
    (DecodeReturned /\ ret.outcome = "Ok" /\ decoder.marker.bytes # <<>>) =>
        LET m == decoder.marker.bytes
        IN  /\ ret.hit_marker <=> EndsWith(ret.data, m)
            /\ ret.hit_marker =>
                   /\ EndsWithOnly(ret.data, m)
                   /\ ret.pixels_read * decoder.lsb_c = 8 * Len(ret.data)
            /\ ~ret.hit_marker => ~OccursIn(ret.data, m)

\* a decode stopped at a marker that is not the first byte it read, with
\* pixels of the traversal left unread
MarkerEarlyStopWitness ==
    /\ DecodeReturned
    /\ ret.hit_marker
    /\ Len(ret.data) > Len(decoder.marker.bytes)
    /\ ret.pixels_read < DecoderVisits(decoder)

(***************************************************************************)
(* C14 (SpecEncoder).  Encode and decode traverse the same pixels: the     *)
(* decoder given the encoder's rules (bits per pixel, channel, offset,     *)
(* stride, position, spread) starts at the pixel the encoder starts at,    *)
(* for every starting position; so what encode_bytes embedded with a       *)
(* bitsPerPixel dividing 8 is what that decoder reads first.               *)
(***************************************************************************)
\* the decoder built from img and given every rule of enc
DecoderWithRulesOf(enc, img) ==
    [SameRules(enc, ImageDecoder_from(img)) EXCEPT
        !.encoding_position = enc.encoding_position,
        !.spread = enc.spread]

IsPrefix(p, data) == Len(p) <= Len(data) /\ SubSeq(data, 1, Len(p)) = p

SameTraversal ==
    EncodeSucceeded =>
        LET dec == DecoderWithRulesOf(encoder, ret.altered_image)
        IN  /\ DecodeLocals(dec).next = EncodeLocals(encoder).next
            /\ (/\ DividesByte(encoder.lsb_c)
                /\ required_visits(Len(call.data), encoder.lsb_c)
                       <= EncoderVisits(encoder))
                   => IsPrefix(call.data, decode(dec).data)

(***************************************************************************)
(* C15 (SpecEncoder).  Spread does not reset the payload iteration: with   *)
(* spread = true and a payload that fits in one pass of the traversal, a   *)
(* successful encode_bytes has embedded each payload byte once: the change *)
(* log holds one ByteEncodeMap per payload byte, in payload order, and the *)
(* pixels after the ceil(8 * payloadLength / bitsPerPixel) pixels of that  *)
(* copy are those of the source image.                                     *)
(***************************************************************************)
SpreadEmbedsOnce ==
    (/\ EncodeSucceeded
     /\ encoder.spread
     /\ required_visits(Len(call.data), encoder.lsb_c) <= EncoderVisits(encoder))
        => /\ Len(ret.map) = Len(call.data)
           /\ \A j \in 1..Len(call.data) : ret.map[j].encoded_byte = call.data[j]
           /\ \A i \in 0..(PixelCount(encoder.source_image) - 1) :
                  i >= real_offset(encoder)
                         + required_visits(Len(call.data), encoder.lsb_c) * encoder.skip_c
                      => ret.altered_image.pixels[i + 1]
                             = encoder.source_image.pixels[i + 1]

(***************************************************************************)
(* C16 (SpecEncoder).  Change log completeness: after a successful         *)
(* encode_bytes the change log has one ColorChange per pixel the call      *)
(* wrote to, so pixels_changed() is the number of pixels written, also     *)
(* when the traversal ran out of pixels inside a payload byte; and each    *)
(* ColorChange holds the coordinates of its pixel, the pixel's colour in   *)
(* the original image and its colour in the altered image.                 *)
(***************************************************************************)
\* the pixels a successful call wrote to: with spread every pixel of the
\* image (the call returns once the traversal has yielded them all), else
\* the visits the payload needs, as far as the traversal has them
PixelsWritten(enc, data) ==
    IF enc.spread THEN PixelCount(enc.source_image)
    ELSE IF required_visits(Len(data), enc.lsb_c) < EncoderVisits(enc)
    THEN required_visits(Len(data), enc.lsb_c)
    ELSE EncoderVisits(enc)

ChangeLogComplete ==
    EncodeSucceeded =>
        /\ pixels_changed(ret.map) = PixelsWritten(encoder, call.data)
        /\ \A j \in 1..Len(ret.map) :
               \A c \in 1..Len(ret.map[j].affected_points) :
                   LET change == ret.map[j].affected_points[c]
                       i == change.y * encoder.source_image.width + change.x
                   IN  /\ change.x < encoder.source_image.width
                       /\ change.y < encoder.source_image.height
                       /\ change.from = ret.original_image.pixels[i + 1]
                       /\ change.to = ret.altered_image.pixels[i + 1]

(***************************************************************************)
(* C17 (SpecSteps).  No pixel is written twice: in every step of a call of *)
(* encode_bytes the position of the pixel iterator does not go back; a     *)
(* step that takes a pixel from the iterator writes that one pixel and     *)
(* moves the iterator past it, and no other step changes a pixel.  So the  *)
(* addresses written are strictly increasing, in every round of the spread *)
(* loop.                                                                   *)
(***************************************************************************)
NoPixelWrittenTwice ==
    [][(pc = "encode_data" /\ pc' = "encode_data") =>
          /\ loop'.next >= loop.next
          /\ IF loop'.pixel_iter_counter # loop.pixel_iter_counter
             THEN /\ loop.next < Len(loop.rgb_img)
                  /\ loop'.next > loop.next
                  /\ \A i \in 1..Len(loop.rgb_img) :
                         i # loop.next + 1 => loop'.rgb_img[i] = loop.rgb_img[i]
             ELSE loop'.rgb_img = loop.rgb_img]_vars

\* a spread call in a later round: it has pushed more maps than the payload
\* has bytes, and has changed a pixel beyond the first copy
NoPixelWrittenTwiceWitness ==
    /\ pc = "encode_data"
    /\ encoder.spread
    /\ Len(call.data) > 0
    /\ Len(loop.encode_maps) > Len(call.data)
    /\ loop.rgb_img # encoder.source_image.pixels

(***************************************************************************)
(* C18 (SpecSteps).  Marker window invariant: during a decode with a       *)
(* non-empty marker of length L, once n bytes have been output the window  *)
(* sequence_hint holds the last min(n, L) of them in order; it is never    *)
(* longer than L; and a marker hit is only reported with a window of       *)
(* length L that equals the marker.                                        *)
(***************************************************************************)
MarkerWindow ==
    (pc \in {"decode", "done"} /\ call.op = "decode" /\ decoder.marker.bytes # <<>>) =>
        LET L == Len(decoder.marker.bytes)
            n == Len(loop.decoded)
            window == loop.sequence_hint
        IN  /\ Len(window) = (IF n < L THEN n ELSE L)
            /\ Len(window) <= L
            /\ window = SubSeq(loop.decoded, n - Len(window) + 1, n)
            /\ loop.hit_marker =>
                   /\ Len(window) = L
                   /\ window = decoder.marker.bytes

\* a decode in progress whose window has dropped bytes: more bytes output
\* than the marker is long, and the marker has two bytes
MarkerWindowWitness ==
    /\ pc = "decode"
    /\ Len(decoder.marker.bytes) = 2
    /\ Len(loop.decoded) > 2
    /\ Len(loop.sequence_hint) = 2

=============================================================================
